---- MODULE Spec2Model ----
(***************************************************************************)
(* A model of the text-to-SQL generators of poc_text_to_sql: the rule      *)
(* based generators (PatternSQLGenerator, NLPSQLGenerator, the rule        *)
(* fallback of LLMSQLGenerator), the LLM-backed generators                 *)
(* (LLMSQLGenerator, EnhancedLLMGenerator, CustomOpenAIGenerator) and the  *)
(* GeneratorFactory, with the POST /query handler of the API and the       *)
(* fine-tune monitor script.                                               *)
(*                                                                         *)
(* Python strings are TLA+ strings, handled character by character with    *)
(* Len, SubSeq and \o.  A TLA+ string cannot hold a backtick, so the       *)
(* backtick of a Markdown fence is written as the character BT.            *)
(***************************************************************************)
EXTENDS Integers, Sequences, FiniteSets, TLC

VARIABLES
    \* ---- one generate_sql call of a rule-based path (SpecRules)
    question,       \* the question given to generate_sql
    path,           \* which rule-based path ran: "none" before the call
    sql,            \* the outcome of the call
    \* ---- one generate_sql call of an LLM-backed generator (Spec)
    gen,            \* the generator object: class, llm_client, custom_model
    gpc,            \* position in generate_sql: "start", "llm", "done"
    response,       \* what chat.completions.create did
    requests,       \* the completion requests sent to the client so far
    outcome,        \* the outcome of generate_sql
    \* ---- GeneratorFactory (SpecFactory)
    fpc,            \* "new" before __init__, "ready" after, "raised" if it raised
    probes,         \* what the probes of __init__ met
    factory,        \* the factory's fields: _openai_client, _local_client, _custom_model
    heap,           \* the generator objects the factory has constructed
    calls,          \* the create_generator calls so far: type, returned object, label
    \* ---- one POST /query request (SpecQuery)
    hpc,            \* position in the handler
    executed,       \* the SQL texts given to execute_query so far
    http,           \* what the handler answered
    \* ---- the fine-tune monitor (SpecMonitor)
    mpc,            \* position in main: "poll", "sleep", "stopped"
    observed,       \* what each poll so far met
    env_updates     \* the update_env_file calls so far, each with its outcome

vars == <<question, path, sql, gen, gpc, response, requests, outcome,
          fpc, probes, factory, heap, calls, hpc, executed, http,
          mpc, observed, env_updates>>

rulesVars == <<path, sql>>
genVars == <<gen, gpc, response, requests, outcome>>
factoryVars == <<fpc, probes, factory, heap, calls>>
apiVars == <<hpc, executed, http>>
monitorVars == <<mpc, observed, env_updates>>

\* Python's None
None == "<None>"

(***************************************************************************)
(* Python str operations                                                   *)
(***************************************************************************)
Char(s, i) == SubSeq(s, i, i)

UpperAlpha == "ABCDEFGHIJKLMNOPQRSTUVWXYZ"
LowerAlpha == "abcdefghijklmnopqrstuvwxyz"
Digits == "0123456789"
Whitespace == {" ", "\n", "\t"}

\* the position of character c in alphabet a, 0 when it is not there
IndexIn(a, c) ==
    IF \E i \in 1..Len(a) : Char(a, i) = c
    THEN CHOOSE i \in 1..Len(a) : Char(a, i) = c
    ELSE 0

LowerChar(c) == LET i == IndexIn(UpperAlpha, c) IN IF i = 0 THEN c ELSE Char(LowerAlpha, i)
UpperChar(c) == LET i == IndexIn(LowerAlpha, c) IN IF i = 0 THEN c ELSE Char(UpperAlpha, i)

\* str.lower() and str.upper() of s[a..b], by halves
RECURSIVE LowerRange(_, _, _)
LowerRange(s, a, b) ==
    IF a > b THEN ""
    ELSE IF a = b THEN LowerChar(Char(s, a))
    ELSE LET m == (a + b) \div 2 IN LowerRange(s, a, m) \o LowerRange(s, m + 1, b)
\* str.lower()
Lower(s) == LowerRange(s, 1, Len(s))

RECURSIVE UpperRange(_, _, _)
UpperRange(s, a, b) ==
    IF a > b THEN ""
    ELSE IF a = b THEN UpperChar(Char(s, a))
    ELSE LET m == (a + b) \div 2 IN UpperRange(s, a, m) \o UpperRange(s, m + 1, b)
\* str.upper()
Upper(s) == UpperRange(s, 1, Len(s))

\* k in s
Contains(s, k) == \E i \in 1..(Len(s) - Len(k) + 1) : SubSeq(s, i, i + Len(k) - 1) = k

StartsWith(s, p) == Len(p) <= Len(s) /\ SubSeq(s, 1, Len(p)) = p
EndsWith(s, p) == Len(p) <= Len(s) /\ SubSeq(s, Len(s) - Len(p) + 1, Len(s)) = p

SetMin(S) == CHOOSE i \in S : \A j \in S : i <= j
SetMax(S) == CHOOSE i \in S : \A j \in S : i >= j

\* s.find(k, from), 1-based: the first position >= from where k occurs, 0 when none
Find(s, k, from) ==
    LET hits == {i \in from..(Len(s) - Len(k) + 1) : SubSeq(s, i, i + Len(k) - 1) = k}
    IN IF hits = {} THEN 0 ELSE SetMin(hits)

\* str.strip()
Strip(s) ==
    LET keep == {i \in 1..Len(s) : Char(s, i) \notin Whitespace}
    IN IF keep = {} THEN "" ELSE SubSeq(s, SetMin(keep), SetMax(keep))

\* s.split('\n'): the sequence of lines
RECURSIVE SplitLines(_)
SplitLines(s) ==
    LET nl == Find(s, "\n", 1)
    IN IF nl = 0 THEN <<s>>
       ELSE <<SubSeq(s, 1, nl - 1)>> \o SplitLines(SubSeq(s, nl + 1, Len(s)))

\* '\n'.join(lines)
RECURSIVE JoinLines(_)
JoinLines(lines) ==
    IF lines = <<>> THEN ""
    ELSE IF Len(lines) = 1 THEN lines[1]
    ELSE lines[1] \o "\n" \o JoinLines(Tail(lines))

IsDigit(c) == IndexIn(Digits, c) # 0

\* re.search(r'\d+', text): the first run of digits, None when there is none
FirstDigits(text) ==
    LET ds == {i \in 1..Len(text) : IsDigit(Char(text, i))}
    IN IF ds = {} THEN None
       ELSE LET a == SetMin(ds)
                ends == {j \in a..Len(text) : /\ \A k \in a..j : IsDigit(Char(text, k))
                                               /\ (j = Len(text) \/ ~IsDigit(Char(text, j + 1)))}
            IN SubSeq(text, a, SetMin(ends))

(***************************************************************************)
(* PatternSQLGenerator (generators/pattern_generator.py)                   *)
(***************************************************************************)
_matches_pattern(text, keywords) == \A k \in keywords : Contains(text, k)
_matches_any(text, keywords) == \E k \in keywords : Contains(text, k)
_matches_any_pattern(text, patterns) == \E p \in patterns : _matches_pattern(text, p)

\* the matched text's string in place of the match: match.string for match.group(0)
_extract_number_WholeText(text, default) ==
    LET m == FirstDigits(text) IN IF m # None THEN text ELSE default

\* the match is ignored
_extract_number_AlwaysDefault(text, default) == default

_extract_number(text, default) ==
    LET m == FirstDigits(text) IN IF m # None THEN m ELSE default

_build_top_counterparties_mpe_query(limit) ==
    "SELECT \n    counterparty_name, \n    counterparty_id, \n    CAST(mpe AS DECIMAL(15,2)) as mpe_value \nFROM counterparty_new \nORDER BY CAST(mpe AS DECIMAL(15,2)) DESC \nLIMIT "
    \o limit \o ";"

_build_rating_notional_query ==
    "SELECT \n    cp.internal_rating, \n    SUM(CAST(t.notional_usd AS DECIMAL(15,2))) as total_notional \nFROM counterparty_new cp \nJOIN trade_new t ON cp.counterparty_id = t.reporting_counterparty_id \nGROUP BY cp.internal_rating \nORDER BY total_notional DESC \nLIMIT 1;"

_build_counterparty_notional_query(order) ==
    "SELECT \n    cp.counterparty_name, \n    SUM(CAST(t.notional_usd AS DECIMAL(15,2))) as total_notional \nFROM counterparty_new cp \nJOIN trade_new t ON cp.counterparty_id = t.reporting_counterparty_id \nGROUP BY cp.counterparty_id, cp.counterparty_name \nORDER BY total_notional "
    \o order \o " \nLIMIT 20;"

_build_trade_count_query ==
    "SELECT \n    cp.counterparty_name, \n    COUNT(t.id) as trade_count \nFROM counterparty_new cp \nLEFT JOIN trade_new t ON cp.counterparty_id = t.reporting_counterparty_id \nGROUP BY cp.counterparty_id, cp.counterparty_name \nORDER BY trade_count DESC;"

_build_highest_trade_query ==
    "SELECT \n    t.trade_id, \n    cp.counterparty_name, \n    t.notional_usd, \n    t.currency \nFROM trade_new t \nJOIN counterparty_new cp ON t.reporting_counterparty_id = cp.counterparty_id \nORDER BY CAST(t.notional_usd AS DECIMAL(15,2)) DESC \nLIMIT 1;"

_build_limit_breach_query ==
    "SELECT \n    counterparty_name, \n    CAST(mpe AS DECIMAL(15,2)) as current_mpe, \n    CAST(mpe_limit AS DECIMAL(15,2)) as mpe_limit \nFROM counterparty_new \nWHERE CAST(mpe AS DECIMAL(15,2)) > CAST(mpe_limit AS DECIMAL(15,2)) \nORDER BY current_mpe DESC;"

_build_rating_distribution_query ==
    "SELECT \n    internal_rating, \n    COUNT(*) as count, \n    SUM(CAST(mpe AS DECIMAL(15,2))) as total_exposure \nFROM counterparty_new \nWHERE internal_rating IS NOT NULL \nGROUP BY internal_rating \nORDER BY total_exposure DESC;"

_build_sector_average_query ==
    "SELECT \n    cp.counterparty_sector, \n    AVG(CAST(t.notional_usd AS DECIMAL(15,2))) as avg_notional \nFROM trade_new t \nJOIN counterparty_new cp ON t.reporting_counterparty_id = cp.counterparty_id \nWHERE cp.counterparty_sector IS NOT NULL \nGROUP BY cp.counterparty_sector \nORDER BY avg_notional DESC;"

_build_sector_exposure_query(order) ==
    "SELECT \n    counterparty_sector, \n    SUM(CAST(mpe AS DECIMAL(15,2))) as total_exposure \nFROM counterparty_new \nWHERE counterparty_sector IS NOT NULL \nGROUP BY counterparty_sector \nORDER BY total_exposure "
    \o order \o " \nLIMIT 1;"

_build_concentration_group_query(order) ==
    "SELECT \n    concentration_group, \n    SUM(CAST(concentration_value AS DECIMAL(15,2))) as total_exposure \nFROM concentration_new \nWHERE concentration_group IS NOT NULL \nGROUP BY concentration_group \nORDER BY total_exposure "
    \o order \o " \nLIMIT 1;"

\* the tests for 'concentration' and 'counterpart' in the other order
Pattern_build_default_query_CounterpartFirst(q) ==
    IF Contains(q, "counterpart") THEN "SELECT * FROM counterparty_new LIMIT 20;"
    ELSE IF Contains(q, "concentration") THEN "SELECT * FROM concentration_new LIMIT 20;"
    ELSE IF Contains(q, "trade") THEN "SELECT * FROM trade_new LIMIT 20;"
    ELSE "SELECT * FROM concentration_new LIMIT 20;"

Pattern_build_default_query(q) ==
    IF Contains(q, "concentration") THEN "SELECT * FROM concentration_new LIMIT 20;"
    ELSE IF Contains(q, "counterpart") THEN "SELECT * FROM counterparty_new LIMIT 20;"
    ELSE IF Contains(q, "trade") THEN "SELECT * FROM trade_new LIMIT 20;"
    ELSE "SELECT * FROM concentration_new LIMIT 20;"

\* PatternSQLGenerator.generate_sql
Pattern_generate_sql(qu) ==
    LET q == Lower(qu) IN
    IF _matches_pattern(q, {"top", "counterpart", "mpe"})
    THEN _build_top_counterparties_mpe_query(_extract_number(q, "10"))
    ELSE IF _matches_pattern(q, {"rating", "highest", "notional"})
    THEN _build_rating_notional_query
    ELSE IF _matches_pattern(q, {"counterpart", "highest", "notional"})
    THEN _build_counterparty_notional_query("DESC")
    ELSE IF _matches_pattern(q, {"counterpart", "lowest", "notional"})
    THEN _build_counterparty_notional_query("ASC")
    ELSE IF _matches_pattern(q, {"how many trades", "counterpart"})
    THEN _build_trade_count_query
    ELSE IF _matches_pattern(q, {"highest", "trade", "notional"})
    THEN _build_highest_trade_query
    ELSE IF _matches_any(q, {"breach", "limit"})
    THEN _build_limit_breach_query
    ELSE IF _matches_pattern(q, {"distribution", "rating"})
    THEN _build_rating_distribution_query
    ELSE IF _matches_any_pattern(q, {{"concentration", "group", "lowest", "exposure"},
                                     {"concentration", "group", "minimum", "exposure"},
                                     {"concentration", "lowest", "aggregate"}})
    THEN _build_concentration_group_query("ASC")
    ELSE IF _matches_any_pattern(q, {{"concentration", "group", "highest", "exposure"},
                                     {"concentration", "group", "maximum", "exposure"}})
    THEN _build_concentration_group_query("DESC")
    ELSE IF _matches_pattern(q, {"average", "sector", "notional"})
    THEN _build_sector_average_query
    ELSE IF _matches_any_pattern(q, {{"sector", "lowest", "exposure"},
                                     {"sector", "minimum", "exposure"},
                                     {"sector", "smallest", "exposure"},
                                     {"sector", "least", "exposure"}})
    THEN _build_sector_exposure_query("ASC")
    ELSE IF _matches_any_pattern(q, {{"sector", "highest", "exposure"},
                                     {"sector", "largest", "exposure"},
                                     {"sector", "concentration", "exposure"}})
    THEN _build_sector_exposure_query("DESC")
    ELSE Pattern_build_default_query(q)

(***************************************************************************)
(* The rule fallback of LLMSQLGenerator (generators/llm_generator.py)      *)
(***************************************************************************)
\* any(word in question for word in words)
AnyIn(q, words) == \E w \in words : Contains(q, w)

_predict_intent(q) ==
    IF AnyIn(q, {"highest", "lowest", "top", "bottom", "minimum", "maximum", "most",
                 "least", "lower", "higher", "smaller", "larger"})
    THEN "ranking_query"
    ELSE IF AnyIn(q, {"how many", "count", "number of"}) THEN "count_query"
    ELSE IF AnyIn(q, {"average", "mean", "sum", "total"}) THEN "aggregation_query"
    ELSE IF AnyIn(q, {"breach", "exceed", "violate", "limit"}) THEN "breach_query"
    ELSE IF AnyIn(q, {"distribution", "breakdown"}) THEN "distribution_query"
    ELSE "basic_query"

_extract_entity(q) ==
    IF AnyIn(q, {"counterparty", "counterparties", "client", "customer"}) THEN "counterparty"
    ELSE IF AnyIn(q, {"sector", "industry", "segment"}) THEN "sector"
    ELSE IF AnyIn(q, {"rating", "grade", "score"}) THEN "rating"
    ELSE IF AnyIn(q, {"trade", "transaction", "deal"}) THEN "trade"
    ELSE "counterparty"

_extract_metric(q) ==
    IF AnyIn(q, {"exposure", "risk", "mpe"}) THEN "exposure"
    ELSE IF AnyIn(q, {"notional", "nominal", "principal"}) THEN "notional"
    ELSE IF AnyIn(q, {"trade", "transaction"}) THEN "trades"
    ELSE "exposure"

_extract_direction(q) ==
    IF AnyIn(q, {"lowest", "minimum", "least", "smallest", "lower", "min"}) THEN "lowest"
    ELSE "highest"

LLM_build_default_query(entity) ==
    IF entity = "counterparty" THEN "SELECT * FROM counterparty_new LIMIT 20;"
    ELSE IF entity = "trade" THEN "SELECT * FROM trade_new LIMIT 20;"
    ELSE "SELECT * FROM concentration_new LIMIT 20;"

_build_ranking_query(entity, metric, direction, q) ==
    LET order == IF direction = "lowest" THEN "ASC" ELSE "DESC" IN
    IF entity = "counterparty" /\ metric = "notional"
    THEN "SELECT \n    cp.counterparty_name, \n    SUM(CAST(t.notional_usd AS DECIMAL(15,2))) as total_notional \nFROM counterparty_new cp \nJOIN trade_new t ON cp.counterparty_id = t.reporting_counterparty_id \nGROUP BY cp.counterparty_id, cp.counterparty_name \nORDER BY total_notional "
         \o order \o " \nLIMIT 20;"
    ELSE IF entity = "counterparty" /\ metric = "exposure"
    THEN "SELECT \n    counterparty_name, \n    CAST(mpe AS DECIMAL(15,2)) as mpe_value \nFROM counterparty_new \nORDER BY CAST(mpe AS DECIMAL(15,2)) "
         \o order \o " \nLIMIT 20;"
    ELSE IF entity = "sector" /\ metric = "exposure"
    THEN "SELECT \n    counterparty_sector, \n    SUM(CAST(mpe AS DECIMAL(15,2))) as total_exposure \nFROM counterparty_new \nWHERE counterparty_sector IS NOT NULL \nGROUP BY counterparty_sector \nORDER BY total_exposure "
         \o order \o " \nLIMIT 1;"
    ELSE IF entity = "rating" /\ metric = "notional"
    THEN "SELECT \n    cp.internal_rating, \n    SUM(CAST(t.notional_usd AS DECIMAL(15,2))) as total_notional \nFROM counterparty_new cp \nJOIN trade_new t ON cp.counterparty_id = t.reporting_counterparty_id \nGROUP BY cp.internal_rating \nORDER BY total_notional "
         \o order \o " \nLIMIT 1;"
    ELSE LLM_build_default_query(entity)

LLM_build_count_query(entity) ==
    IF entity = "counterparty"
    THEN "SELECT \n    cp.counterparty_name, \n    COUNT(t.id) as trade_count \nFROM counterparty_new cp \nLEFT JOIN trade_new t ON cp.counterparty_id = t.reporting_counterparty_id \nGROUP BY cp.counterparty_id, cp.counterparty_name \nORDER BY trade_count DESC;"
    ELSE LLM_build_default_query(entity)

LLM_build_aggregation_query(entity, metric, q) ==
    IF Contains(q, "average") /\ entity = "sector"
    THEN "SELECT \n    cp.counterparty_sector, \n    AVG(CAST(t.notional_usd AS DECIMAL(15,2))) as avg_notional \nFROM trade_new t \nJOIN counterparty_new cp ON t.reporting_counterparty_id = cp.counterparty_id \nWHERE cp.counterparty_sector IS NOT NULL \nGROUP BY cp.counterparty_sector \nORDER BY avg_notional DESC;"
    ELSE LLM_build_default_query(entity)

LLM_build_breach_query ==
    "SELECT \n    counterparty_name, \n    CAST(mpe AS DECIMAL(15,2)) as current_mpe, \n    CAST(mpe_limit AS DECIMAL(15,2)) as mpe_limit \nFROM counterparty_new \nWHERE CAST(mpe AS DECIMAL(15,2)) > CAST(mpe_limit AS DECIMAL(15,2)) \nORDER BY current_mpe DESC;"

\* LLMSQLGenerator._generate_with_rules
_generate_with_rules(qu) ==
    LET q == Lower(qu)
        intent == _predict_intent(q)
        entity == _extract_entity(q)
        metric == _extract_metric(q)
        direction == _extract_direction(q)
    IN IF intent = "ranking_query" THEN _build_ranking_query(entity, metric, direction, q)
       ELSE IF intent = "count_query" THEN LLM_build_count_query(entity)
       ELSE IF intent = "aggregation_query" THEN LLM_build_aggregation_query(entity, metric, q)
       ELSE IF intent = "breach_query" THEN LLM_build_breach_query
       ELSE LLM_build_default_query(entity)

(***************************************************************************)
(* NLPSQLGenerator (generators/nlp_generator.py)                           *)
(***************************************************************************)
\* the synonym table of _setup_semantic_mappings, in the order of the dict
synonyms == <<
    <<"highest", {"highest", "maximum", "max", "largest", "biggest", "most", "top", "greatest"}>>,
    <<"lowest", {"lowest", "minimum", "min", "smallest", "least", "bottom", "lower", "fewer"}>>,
    <<"counterparty", {"counterparty", "counterparties", "client", "clients", "customer", "customers"}>>,
    <<"sector", {"sector", "sectors", "industry", "industries", "segment", "segments"}>>,
    <<"trade", {"trade", "trades", "transaction", "transactions", "deal", "deals"}>>,
    <<"rating", {"rating", "ratings", "grade", "grades", "score", "scores"}>>,
    <<"exposure", {"exposure", "risk", "amount", "value", "position"}>>,
    <<"notional", {"notional", "nominal", "principal", "amount", "value"}>>,
    <<"mpe", {"mpe", "maximum potential exposure", "max exposure", "potential exposure"}>>,
    <<"breach", {"breach", "breached", "exceed", "exceeded", "violate", "violated", "over", "above"}>>,
    <<"count", {"count", "number", "total", "how many", "quantity"}>>,
    <<"distribution", {"distribution", "breakdown", "split", "allocation", "spread"}>>,
    <<"average", {"average", "avg", "mean", "typical"}>> >>

\* word in self.word_to_concept
InWordToConcept(word) == \E i \in 1..Len(synonyms) : word \in synonyms[i][2]

\* self.word_to_concept[word]: the reverse mapping is filled in the order of the
\* dict, so the last concept listing the word is the one kept
word_to_concept(word) ==
    synonyms[SetMax({i \in 1..Len(synonyms) : word \in synonyms[i][2]})][1]

\* a character of \w
IsWordChar(c) == IndexIn(LowerAlpha, c) # 0 \/ IndexIn(UpperAlpha, c) # 0 \/ IsDigit(c) \/ c = "_"

\* re.findall(r'\b\w+\b', s), as a set: the maximal runs of word characters
Words(s) ==
    {SubSeq(s, ij[1], ij[2]) : ij \in
        {p \in (1..Len(s)) \X (1..Len(s)) :
            /\ p[1] <= p[2]
            /\ \A k \in p[1]..p[2] : IsWordChar(Char(s, k))
            /\ (p[1] = 1 \/ ~IsWordChar(Char(s, p[1] - 1)))
            /\ (p[2] = Len(s) \/ ~IsWordChar(Char(s, p[2] + 1)))}}

_extract_concepts(qu) ==
    {IF InWordToConcept(w) THEN word_to_concept(w) ELSE w : w \in Words(Lower(qu))}

_is_top_bottom_query(concepts) ==
    /\ ("highest" \in concepts \/ "lowest" \in concepts)
    /\ ("counterparty" \in concepts \/ "sector" \in concepts \/ "rating" \in concepts)

_is_aggregation_query(concepts) ==
    \/ "average" \in concepts
    \/ /\ ("highest" \in concepts \/ "lowest" \in concepts)
       /\ ("exposure" \in concepts \/ "notional" \in concepts)

_is_count_query(concepts) == "count" \in concepts \/ "how" \in concepts \/ "many" \in concepts
_is_breach_query(concepts) == "breach" \in concepts \/ "limit" \in concepts
_is_distribution_query(concepts) == "distribution" \in concepts

NLP_build_default_query(concepts) ==
    IF "counterparty" \in concepts THEN "SELECT * FROM counterparty_new LIMIT 20;"
    ELSE IF "trade" \in concepts THEN "SELECT * FROM trade_new LIMIT 20;"
    ELSE "SELECT * FROM concentration_new LIMIT 20;"

_build_top_bottom_query(qu, concepts) ==
    LET num_match == FirstDigits(qu)
        limit == IF num_match # None THEN num_match ELSE "10"
        order == IF "lowest" \in concepts THEN "ASC" ELSE "DESC"
    IN
    IF "counterparty" \in concepts /\ "mpe" \in concepts
    THEN "SELECT \n    counterparty_name, \n    counterparty_id, \n    CAST(mpe AS DECIMAL(15,2)) as mpe_value \nFROM counterparty_new \nORDER BY CAST(mpe AS DECIMAL(15,2)) "
         \o order \o " \nLIMIT " \o limit \o ";"
    ELSE IF "counterparty" \in concepts /\ "notional" \in concepts
    THEN "SELECT \n    cp.counterparty_name, \n    SUM(CAST(t.notional_usd AS DECIMAL(15,2))) as total_notional \nFROM counterparty_new cp \nJOIN trade_new t ON cp.counterparty_id = t.reporting_counterparty_id \nGROUP BY cp.counterparty_id, cp.counterparty_name \nORDER BY total_notional "
         \o order \o " \nLIMIT 20;"
    ELSE IF "sector" \in concepts /\ "exposure" \in concepts
    THEN "SELECT \n    counterparty_sector, \n    SUM(CAST(mpe AS DECIMAL(15,2))) as total_exposure \nFROM counterparty_new \nWHERE counterparty_sector IS NOT NULL \nGROUP BY counterparty_sector \nORDER BY total_exposure "
         \o order \o " \nLIMIT 1;"
    ELSE IF "rating" \in concepts /\ "notional" \in concepts
    THEN "SELECT \n    cp.internal_rating, \n    SUM(CAST(t.notional_usd AS DECIMAL(15,2))) as total_notional \nFROM counterparty_new cp \nJOIN trade_new t ON cp.counterparty_id = t.reporting_counterparty_id \nGROUP BY cp.internal_rating \nORDER BY total_notional "
         \o order \o " \nLIMIT 1;"
    ELSE NLP_build_default_query(concepts)

NLP_build_aggregation_query(concepts) ==
    IF "average" \in concepts /\ "sector" \in concepts
    THEN "SELECT \n    cp.counterparty_sector, \n    AVG(CAST(t.notional_usd AS DECIMAL(15,2))) as avg_notional \nFROM trade_new t \nJOIN counterparty_new cp ON t.reporting_counterparty_id = cp.counterparty_id \nWHERE cp.counterparty_sector IS NOT NULL \nGROUP BY cp.counterparty_sector \nORDER BY avg_notional DESC;"
    ELSE NLP_build_default_query(concepts)

NLP_build_count_query(concepts) ==
    IF "trade" \in concepts /\ "counterparty" \in concepts
    THEN "SELECT \n    cp.counterparty_name, \n    COUNT(t.id) as trade_count \nFROM counterparty_new cp \nLEFT JOIN trade_new t ON cp.counterparty_id = t.reporting_counterparty_id \nGROUP BY cp.counterparty_id, cp.counterparty_name \nORDER BY trade_count DESC;"
    ELSE NLP_build_default_query(concepts)

NLP_build_breach_query ==
    "SELECT \n    counterparty_name, \n    CAST(mpe AS DECIMAL(15,2)) as current_mpe, \n    CAST(mpe_limit AS DECIMAL(15,2)) as mpe_limit \nFROM counterparty_new \nWHERE CAST(mpe AS DECIMAL(15,2)) > CAST(mpe_limit AS DECIMAL(15,2)) \nORDER BY current_mpe DESC;"

NLP_build_distribution_query(concepts) ==
    IF "rating" \in concepts
    THEN "SELECT \n    internal_rating, \n    COUNT(*) as count, \n    SUM(CAST(mpe AS DECIMAL(15,2))) as total_exposure \nFROM counterparty_new \nWHERE internal_rating IS NOT NULL \nGROUP BY internal_rating \nORDER BY total_exposure DESC;"
    ELSE NLP_build_default_query(concepts)

\* NLPSQLGenerator.generate_sql
NLP_generate_sql(qu) ==
    LET concepts == _extract_concepts(qu) IN
    IF _is_top_bottom_query(concepts) THEN _build_top_bottom_query(qu, concepts)
    ELSE IF _is_aggregation_query(concepts) THEN NLP_build_aggregation_query(concepts)
    ELSE IF _is_count_query(concepts) THEN NLP_build_count_query(concepts)
    ELSE IF _is_breach_query(concepts) THEN NLP_build_breach_query
    ELSE IF _is_distribution_query(concepts) THEN NLP_build_distribution_query(concepts)
    ELSE NLP_build_default_query(concepts)

(***************************************************************************)
(* LLMSQLGenerator, EnhancedLLMGenerator, CustomOpenAIGenerator            *)
(***************************************************************************)
\* the backtick character, which a TLA+ string cannot hold
BT == "~"
Fence == BT \o BT \o BT

\* what a call returns or raises
Return(v) == [kind |-> "return", value |-> v]
Raise == [kind |-> "raise", value |-> None]
\* before the call has ended
NoOutcome == [kind |-> "none", value |-> None]
\* a try block that ended without returning
FallThrough == [kind |-> "fallthrough", value |-> None]

\* response.choices[0].message.content.strip(): an empty choices list raises
\* IndexError, a None content raises AttributeError
ResponseContent(resp) ==
    IF resp.kind = "text" THEN Return(Strip(resp.content)) ELSE Raise

\* re.search(r'```sql\n(.*?)\n```', content, re.DOTALL): group(1) of the
\* leftmost match with the shortest body
SqlBlockMatch(content) ==
    LET open == Fence \o "sql\n"
        a == Find(content, open, 1)
        b == IF a = 0 THEN 0 ELSE Find(content, "\n" \o Fence, a + Len(open))
    IN IF b = 0 THEN [found |-> FALSE, group |-> None]
       ELSE [found |-> TRUE, group |-> SubSeq(content, a + Len(open), b - 1)]

\* the line scan of LLMSQLGenerator._generate_with_llm: from the first line that
\* contains SELECT through the first line that ends with ';'
RECURSIVE LLMScanLines(_, _)
LLMScanLines(lines, in_sql) ==
    IF lines = <<>> THEN <<>>
    ELSE LET line == Head(lines)
             now == in_sql \/ Contains(Upper(line), "SELECT")
         IN IF ~now THEN LLMScanLines(Tail(lines), FALSE)
            ELSE IF EndsWith(Strip(line), ";") THEN <<line>>
            ELSE <<line>> \o LLMScanLines(Tail(lines), TRUE)

\* the try block of LLMSQLGenerator._generate_with_llm, after the client was called
LLM_try(qu, resp) ==
    LET c == ResponseContent(resp) IN
    IF c.kind = "raise" THEN Raise
    ELSE LET content == c.value
             sql_match == SqlBlockMatch(content)
         IN IF sql_match.found THEN Return(Strip(sql_match.group))
            ELSE IF Contains(Upper(content), "SELECT")
            THEN Return(JoinLines(LLMScanLines(SplitLines(content), FALSE)))
            ELSE FallThrough

\* LLMSQLGenerator._generate_with_llm (EnhancedLLMGenerator inherits it): the
\* except clause and the end of the try block both reach the rule fallback
LLM_generate_with_llm(qu, resp) ==
    LET r == LLM_try(qu, resp)
    IN IF r.kind = "return" THEN r ELSE Return(_generate_with_rules(qu))

\* the line scan of CustomOpenAIGenerator._extract_sql: stripped lines, from the
\* first that starts with SELECT through the first that ends with ';'
RECURSIVE CustomScanLines(_, _)
CustomScanLines(lines, in_sql) ==
    IF lines = <<>> THEN <<>>
    ELSE LET line == Strip(Head(lines))
             now == in_sql \/ StartsWith(Upper(line), "SELECT")
         IN IF ~now THEN CustomScanLines(Tail(lines), FALSE)
            ELSE IF EndsWith(line, ";") THEN <<line>>
            ELSE <<line>> \o CustomScanLines(Tail(lines), TRUE)

\* content[start:end].strip() of a fenced block opened by `open`; None when the
\* block is not closed
FencedBlock(content, open) ==
    LET start == Find(content, open, 1) + Len(open)
        end == Find(content, Fence, start)
    IN IF end = 0 THEN None ELSE Strip(SubSeq(content, start, end - 1))

\* CustomOpenAIGenerator._extract_sql
_extract_sql(content) ==
    LET block == IF Contains(content, Fence \o "sql") THEN FencedBlock(content, Fence \o "sql")
                 ELSE IF Contains(content, Fence) THEN FencedBlock(content, Fence)
                 ELSE None
        sql_lines == CustomScanLines(SplitLines(content), FALSE)
    IN IF block # None THEN block
       ELSE IF sql_lines # <<>> THEN JoinLines(sql_lines)
       ELSE Strip(content)

\* len(sql) > 10
MinSqlLen == 10

\* the phrases that mark a prose answer
DenyList == {"the answer is", "group c", "total exposure of", "lowest aggregate",
             "concentration group"}

\* _is_valid_sql without its deny list
_is_valid_sql_NoDenyList(s) ==
    LET sql_upper == Strip(Upper(s)) IN
    /\ StartsWith(sql_upper, "SELECT")
    /\ Contains(sql_upper, "FROM")
    /\ Len(s) > MinSqlLen

\* CustomOpenAIGenerator._is_valid_sql
_is_valid_sql(s) ==
    LET sql_upper == Strip(Upper(s)) IN
    /\ StartsWith(sql_upper, "SELECT")
    /\ Contains(sql_upper, "FROM")
    /\ Len(s) > MinSqlLen
    /\ ~ \E phrase \in DenyList : Contains(Lower(s), phrase)

\* the try block of CustomOpenAIGenerator._generate_with_llm, after the client was called
Custom_try(qu, resp) ==
    LET c == ResponseContent(resp) IN
    IF c.kind = "raise" THEN Raise
    ELSE LET s == _extract_sql(c.value)
         IN IF ~_is_valid_sql(s) THEN Return(_generate_with_rules(qu)) ELSE Return(s)

\* CustomOpenAIGenerator._generate_with_llm without its except clause
Custom_generate_with_llm_NoExcept(qu, resp) == Custom_try(qu, resp)

\* CustomOpenAIGenerator._generate_with_llm
Custom_generate_with_llm(qu, resp) ==
    LET r == Custom_try(qu, resp)
    IN IF r.kind = "raise" THEN Return(_generate_with_rules(qu)) ELSE r

\* generate_sql's choice of the request: the model name and the messages.
\* model_exists is the answer of _model_exists("llama2-sql"), asked of the
\* local model service only when the client is the local one.
SystemPrompt == "<system_prompt>"
LLMPrompt(qu) ==
    "<schema_context>\n\nExamples:\n<examples>\n\nNow generate SQL for this question:\nQuestion: "
    \o qu \o "\n\nAnalyze the intent and generate appropriate SQL query."
EnhancedPrompt(qu) ==
    "<schema_context>\n\n<rules>\n\n<examples>\n\nQuestion: "
    \o qu \o "\nGenerate ONLY the SQL query without explanation:"

\* truth value of an Optional[str]: None and '' are false
Truthy(x) == x # None /\ x # ""

\* the fine-tuned model is sent the system prompt as well
Request_SystemPromptAlways(g, qu, model_exists) ==
    IF g.cls = "CustomOpenAIGenerator"
    THEN [model |-> IF Truthy(g.custom_model) THEN g.custom_model ELSE "gpt-3.5-turbo",
          messages |-> <<[role |-> "system", content |-> SystemPrompt],
                         [role |-> "user", content |-> qu]>>,
          max_tokens |-> 200]
    ELSE [model |-> IF g.llm_client = "local"
                    THEN (IF model_exists THEN "llama2-sql" ELSE "llama2")
                    ELSE "gpt-3.5-turbo",
          messages |-> <<[role |-> "user",
                          content |-> IF g.cls = "EnhancedLLMGenerator"
                                      THEN EnhancedPrompt(qu) ELSE LLMPrompt(qu)]>>,
          max_tokens |-> 500]

Request(g, qu, model_exists) ==
    IF g.cls = "CustomOpenAIGenerator"
    THEN [model |-> IF Truthy(g.custom_model) THEN g.custom_model ELSE "gpt-3.5-turbo",
          messages |-> IF Truthy(g.custom_model)
                       THEN <<[role |-> "user", content |-> qu]>>
                       ELSE <<[role |-> "system", content |-> SystemPrompt],
                              [role |-> "user", content |-> qu]>>,
          max_tokens |-> 200]
    ELSE [model |-> IF g.llm_client = "local"
                    THEN (IF model_exists THEN "llama2-sql" ELSE "llama2")
                    ELSE "gpt-3.5-turbo",
          messages |-> <<[role |-> "user",
                          content |-> IF g.cls = "EnhancedLLMGenerator"
                                      THEN EnhancedPrompt(qu) ELSE LLMPrompt(qu)]>>,
          max_tokens |-> 500]

\* _generate_with_llm of the generator's class, after the client was called
generate_with_llm(g, qu, resp) ==
    IF g.cls = "CustomOpenAIGenerator" THEN Custom_generate_with_llm(qu, resp)
    ELSE LLM_generate_with_llm(qu, resp)

(***************************************************************************)
(* LLMClientFactory (core/llm_client.py) and GeneratorFactory              *)
(* (generators/generator_factory.py)                                       *)
(***************************************************************************)
\* the client objects
OpenAIClient == "openai"
LocalClient == "local"

\* the try block of _create_openai_client.  probe: what the probe meets:
\* "import_error" (no openai library), "no_key", "other_exception" (OpenAI()
\* raises), "test_fails" (the test completion raises), "ok"
OpenAI_try(probe) ==
    IF probe = "import_error" THEN Raise
    ELSE IF probe = "no_key" THEN Return(None)
    ELSE IF probe = "other_exception" THEN Raise
    ELSE IF probe = "test_fails" THEN Return(None)    \* the inner except
    ELSE Return(OpenAIClient)

\* _create_openai_client returning the client although the test call failed
_create_openai_client_Untested(probe) ==
    IF probe = "test_fails" THEN Return(OpenAIClient)
    ELSE LET r == OpenAI_try(probe) IN IF r.kind = "raise" THEN Return(None) ELSE r

\* LLMClientFactory._create_openai_client: except ImportError, except Exception
_create_openai_client(probe) ==
    LET r == OpenAI_try(probe) IN IF r.kind = "raise" THEN Return(None) ELSE r

\* the try block of _create_local_client.  probe: "status_not_200", "no_models",
\* "request_exception" (requests raises), "other_exception" (an import fails,
\* the body is not JSON, OpenAI() raises), "ok"
Local_try(probe) ==
    IF probe = "other_exception" THEN Raise
    ELSE IF probe = "status_not_200" THEN Return(None)
    ELSE IF probe = "no_models" THEN Return(None)
    ELSE IF probe = "request_exception" THEN Return(None)    \* the inner except
    ELSE Return(LocalClient)

\* LLMClientFactory._create_local_client
_create_local_client(probe) ==
    LET r == Local_try(probe) IN IF r.kind = "raise" THEN Return(None) ELSE r

\* LLMClientFactory.create_client(config), for the two configs the factory passes
create_client(provider, p) ==
    IF provider = "openai" THEN _create_openai_client(p.openai)
    ELSE IF provider = "local" THEN _create_local_client(p.local)
    ELSE Return(None)

\* _get_custom_model returning whatever OPENAI_CUSTOM_MODEL holds once it is set
_get_custom_model_Unchecked(p) ==
    IF p.env_model # None THEN Return(p.env_model)
    ELSE IF p.job = "raises" THEN Return(None)
    ELSE IF Truthy(p.job) THEN Return(p.job)
    ELSE Return(None)

\* GeneratorFactory._get_custom_model.  p.env_model is OPENAI_CUSTOM_MODEL (None
\* when unset); p.job is "raises" when the fine-tune job lookup raises (import,
\* constructor or retrieve), else the job's fine_tuned_model
_get_custom_model(p) ==
    IF Truthy(p.env_model) THEN Return(p.env_model)
    ELSE LET lookup == IF p.job = "raises" THEN Raise ELSE Return(p.job)
         IN IF lookup.kind = "raise" THEN Return(None)        \* except Exception: pass
            ELSE IF Truthy(lookup.value) THEN Return(lookup.value)
            ELSE Return(None)

\* the fields of a factory before _setup_clients
NoFactory == [_openai_client |-> None, _local_client |-> None, _custom_model |-> None]

\* a try block of _setup_clients that ended (kind "return") or raised (kind
\* "raise"), and the fields of the factory as they are then
Ended(f) == [kind |-> "return", value |-> f]
Raised(f) == [kind |-> "raise", value |-> f]

\* the first try block of _setup_clients
SetupOpenAI_try(f, p) ==
    LET c == create_client("openai", p) IN
    IF c.kind = "raise" THEN Raised(f)
    ELSE LET f1 == [f EXCEPT !._openai_client = c.value] IN
         IF ~Truthy(c.value) THEN Ended(f1)
         ELSE LET m == _get_custom_model(p) IN
              IF m.kind = "raise" THEN Raised(f1)
              ELSE Ended([f1 EXCEPT !._custom_model = m.value])

\* the second try block of _setup_clients
SetupLocal_try(f, p) ==
    LET c == create_client("local", p) IN
    IF c.kind = "raise" THEN Raised(f) ELSE Ended([f EXCEPT !._local_client = c.value])

\* GeneratorFactory._setup_clients: each try block has an except Exception
\* clause that only prints, so the method goes on with the fields as they are
_setup_clients(f, p) ==
    LET f1 == SetupOpenAI_try(f, p).value
        f2 == SetupLocal_try(f1, p).value
    IN Return(f2)

\* GeneratorFactory.__init__
GeneratorFactory_init(p) == _setup_clients(NoFactory, p)

\* GeneratorFactory._has_custom_model
_has_custom_model(f) == f._custom_model # None

\* GET /status (api/routes.py get_status).  schema is "ok" or "raises", the
\* outcome of db_manager.extract_schema(); p the probes the new factory meets
get_status(schema, p) ==
    LET failed == [available_generators |-> [k \in {"rule"} |-> TRUE], default |-> "rule"]
        r == GeneratorFactory_init(p)
    IN IF schema = "raises" \/ r.kind = "raise" THEN failed
       ELSE [available_generators |->
                [k \in {"custom", "openai", "local", "rule"} |->
                    IF k = "custom" THEN _has_custom_model(r.value)
                    ELSE IF k = "openai" THEN r.value._openai_client # None
                    ELSE IF k = "local" THEN r.value._local_client # None
                    ELSE TRUE],
             default |-> "auto"]

\* a new generator object on the heap: the heap after, and the reference (the
\* object's index in the heap)
PatternObject == [cls |-> "PatternSQLGenerator", llm_client |-> None, custom_model |-> None]
NewObject(h, obj) == [heap |-> Append(h, obj), ref |-> Len(h) + 1]
NewPattern(h) == NewObject(h, PatternObject)
\* CustomOpenAIGenerator(schema_info, client): custom_model starts as None
NewCustomOpenAI(h, client) ==
    NewObject(h, [cls |-> "CustomOpenAIGenerator", llm_client |-> client, custom_model |-> None])
NewEnhanced(h, client) ==
    NewObject(h, [cls |-> "EnhancedLLMGenerator", llm_client |-> client, custom_model |-> None])

\* CustomOpenAIGenerator.set_custom_model on the object at ref
set_custom_model(h, ref, model_name) == [h EXCEPT ![ref].custom_model = model_name]

\* what create_generator returns: the heap after the call, the returned tuple
Created(n, label) == [heap |-> n.heap, ref |-> n.ref, label |-> label]

\* the fine-tuned generator of the 'custom' and 'auto' branches
NewFineTuned(f, h) ==
    LET n == NewCustomOpenAI(h, f._openai_client)
    IN [heap |-> set_custom_model(n.heap, n.ref, f._custom_model), ref |-> n.ref]

\* the 'openai' branch handing out a CustomOpenAIGenerator it made before
create_openai_Cached(f, h) ==
    LET made == {r \in 1..Len(h) : h[r].cls = "CustomOpenAIGenerator"} IN
    IF Truthy(f._openai_client) /\ made # {}
    THEN [heap |-> h, ref |-> SetMin(made), label |-> "Custom OpenAI GPT"]
    ELSE IF Truthy(f._openai_client)
    THEN Created(NewCustomOpenAI(h, f._openai_client), "Custom OpenAI GPT")
    ELSE Created(NewPattern(h), "Rule-based (OpenAI unavailable)")

\* generator_type == "openai"
create_openai(f, h) ==
    IF Truthy(f._openai_client)
    THEN Created(NewCustomOpenAI(h, f._openai_client), "Custom OpenAI GPT")
    ELSE Created(NewPattern(h), "Rule-based (OpenAI unavailable)")

\* generator_type == "local"
create_local(f, h) ==
    IF Truthy(f._local_client)
    THEN Created(NewEnhanced(h, f._local_client), "Local LLM (Enhanced)")
    ELSE Created(NewPattern(h), "Rule-based (Local LLM unavailable)")

\* the 'rule' branch taking the best available backend
create_rule_BestAvailable(f, h) ==
    IF Truthy(f._openai_client)
    THEN Created(NewCustomOpenAI(h, f._openai_client), "Rule-based")
    ELSE Created(NewPattern(h), "Rule-based")

\* generator_type == "rule"
create_rule(f, h) == Created(NewPattern(h), "Rule-based")

\* the 'custom' branch degrading to OpenAI under the label of a plain request
create_custom_SilentDegrade(f, h) ==
    IF Truthy(f._custom_model) /\ Truthy(f._openai_client)
    THEN Created(NewFineTuned(f, h), "Custom Fine-tuned GPT (" \o f._custom_model \o ")")
    ELSE IF Truthy(f._openai_client)
    THEN Created(NewCustomOpenAI(h, f._openai_client), "Custom OpenAI GPT")
    ELSE Created(NewPattern(h), "Rule-based (Custom unavailable)")

\* generator_type == "custom"
create_custom(f, h) ==
    IF Truthy(f._custom_model) /\ Truthy(f._openai_client)
    THEN Created(NewFineTuned(f, h), "Custom Fine-tuned GPT (" \o f._custom_model \o ")")
    ELSE IF Truthy(f._openai_client)
    THEN Created(NewCustomOpenAI(h, f._openai_client), "OpenAI GPT (Custom unavailable)")
    ELSE Created(NewPattern(h), "Rule-based (Custom unavailable)")

\* the 'auto' branch trying the local client before the OpenAI client
create_auto_LocalFirst(f, h) ==
    IF Truthy(f._custom_model) /\ Truthy(f._openai_client)
    THEN Created(NewFineTuned(f, h), "Custom Fine-tuned GPT (Auto)")
    ELSE IF Truthy(f._local_client)
    THEN Created(NewEnhanced(h, f._local_client), "Local LLM (Auto)")
    ELSE IF Truthy(f._openai_client)
    THEN Created(NewCustomOpenAI(h, f._openai_client), "OpenAI GPT (Auto)")
    ELSE Created(NewPattern(h), "Rule-based (Auto)")

\* generator_type == "auto": custom, then OpenAI, then local, then rule-based
create_auto(f, h) ==
    IF Truthy(f._custom_model) /\ Truthy(f._openai_client)
    THEN Created(NewFineTuned(f, h), "Custom Fine-tuned GPT (Auto)")
    ELSE IF Truthy(f._openai_client)
    THEN Created(NewCustomOpenAI(h, f._openai_client), "OpenAI GPT (Auto)")
    ELSE IF Truthy(f._local_client)
    THEN Created(NewEnhanced(h, f._local_client), "Local LLM (Auto)")
    ELSE Created(NewPattern(h), "Rule-based (Auto)")

\* create_generator without its else branch: the method returns None
create_default_None(f, h) == [heap |-> h, ref |-> 0, label |-> None]

\* any other generator_type
create_default(f, h) == Created(NewPattern(h), "Rule-based (Default)")

\* GeneratorFactory.create_generator
create_generator(f, h, generator_type) ==
    IF generator_type = "openai" THEN create_openai(f, h)
    ELSE IF generator_type = "local" THEN create_local(f, h)
    ELSE IF generator_type = "rule" THEN create_rule(f, h)
    ELSE IF generator_type = "custom" THEN create_custom(f, h)
    ELSE IF generator_type = "auto" THEN create_auto(f, h)
    ELSE create_default(f, h)

(***************************************************************************)
(* Inputs                                                                  *)
(***************************************************************************)
\* the longest question built from the vocabulary, in words
MaxWords == 2

Vocabulary == {"highest", "lowest", "top", "breach", "limit", "counterparties",
               "sector", "exposure", "how many", "mpe", "7", "concentration",
               "trade", "average"}

ExampleQuestions == {
    "",
    "Which sector has the lowest exposure?",
    "Which counterparties have the highest MPE?",
    "Which counterparties have breached their MPE limits?",
    "How many trades exist per counterparty?",
    "top 7 counterparties by MPE",
    "top counterparties by MPE",
    "Which counterparties have the highest notional and breach a limit?",
    "highest trade notional over the limit",
    "average notional by sector",
    "distribution by rating",
    "show me everything",
    "Which sector has the maximum exposure?",
    "Which sector has the largest exposure?",
    "average exposure by sector",
    "average notional by sector for counterparties",
    "Top 25 counterparties by MPE in 2024",
    "list all trades",
    "concentration and counterparty overview",
    "distribution by sector",
    "How many counterparties are there?",
    "Which client has the highest nominal amount?",
    "Which sector has the smallest exposure?" }

RECURSIVE JoinWords(_)
JoinWords(ws) ==
    IF ws = <<>> THEN ""
    ELSE IF Len(ws) = 1 THEN ws[1]
    ELSE ws[1] \o " " \o JoinWords(Tail(ws))

Questions ==
    ExampleQuestions \cup
    {JoinWords(ws) : ws \in UNION {[1..n -> Vocabulary] : n \in 1..MaxWords}}

\* the questions put to the LLM-backed generators
GenQuestions == {
    "",
    "Which sector has the lowest exposure?",
    "Which counterparties have breached their MPE limits?",
    "How many trades exist per counterparty?",
    "top 7 counterparties by MPE",
    "show me everything" }

\* the reply texts of the LLM; BT stands for a backtick
Replies == {
    "~~~sql\nSELECT name FROM t;\n~~~",
    "Here is the query:\n~~~sql\nSELECT a FROM t\nWHERE a > 1;\n~~~\nHope it helps",
    "~~~sql\nThe answer is group C\n~~~",
    "~~~\nSELECT a FROM t;\n~~~",
    "SELECT a FROM t;",
    "select a from t",
    "Sure! SELECT a\nFROM t;\nThanks",
    "I cannot select anything for that question.",
    "The answer is Group C",
    "",
    "SELECT 1;",
    "Select the rows from the table, the answer is 42",
    "~~~sql\nSELECT a FROM t;",
    "~~~sql\n\n~~~" }

\* what chat.completions.create can do: raise, or return a response whose
\* choices are empty, whose content is None, or whose content is a text
Responses ==
    {[kind |-> k, content |-> None] : k \in {"raise", "nochoices", "null"}}
    \cup {[kind |-> "text", content |-> r] : r \in Replies}

CustomModelId == "ft:gpt-3.5-turbo:acme"

\* before the client was called
NoResponse == [kind |-> "none", content |-> None]
\* no generator object
NoGenerator == [cls |-> None, llm_client |-> None, custom_model |-> None]

\* the generator objects: class, llm_client, custom_model
Generators ==
    {[cls |-> c, llm_client |-> cl, custom_model |-> None] :
        c \in {"LLMSQLGenerator", "EnhancedLLMGenerator"}, cl \in {None, "openai", "local"}}
    \cup {[cls |-> "CustomOpenAIGenerator", llm_client |-> cl, custom_model |-> m] :
        cl \in {None, "openai"}, m \in {None, "", CustomModelId}}

(***************************************************************************)
(* SpecRules: one generate_sql call of a rule-based path                   *)
(***************************************************************************)
GenIdle ==
    /\ gen = NoGenerator /\ gpc = "idle" /\ response = NoResponse /\ requests = <<>>
    /\ outcome = NoOutcome
NoProbes == [openai |-> None, env_model |-> None, job |-> None, local |-> None]
FactoryIdle ==
    /\ fpc = "idle" /\ probes = NoProbes /\ factory = NoFactory /\ heap = <<>> /\ calls = <<>>
RulesIdle ==
    /\ path = "idle" /\ sql = None
\* no answer of the handler
NoHttp == [kind |-> "none", status |-> 0, sql_query |-> None, columns |-> <<>>, rows |-> <<>>,
           error |-> None, generator_used |-> None, detail |-> None]
ApiIdle ==
    /\ hpc = "idle" /\ executed = <<>> /\ http = NoHttp
MonitorIdle ==
    /\ mpc = "idle" /\ observed = <<>> /\ env_updates = <<>>

InitRules ==
    /\ question \in Questions
    /\ path = "none"
    /\ sql = None
    /\ GenIdle
    /\ FactoryIdle
    /\ ApiIdle
    /\ MonitorIdle

\* PatternSQLGenerator.generate_sql(question)
RunPattern ==
    /\ path = "none"
    /\ path' = "pattern"
    /\ sql' = Pattern_generate_sql(question)
    /\ UNCHANGED <<question, genVars, factoryVars>>
    /\ UNCHANGED <<apiVars, monitorVars>>

\* LLMSQLGenerator._generate_with_rules(question)
RunLLMRules ==
    /\ path = "none"
    /\ path' = "llm_rules"
    /\ sql' = _generate_with_rules(question)
    /\ UNCHANGED <<question, genVars, factoryVars>>
    /\ UNCHANGED <<apiVars, monitorVars>>

\* NLPSQLGenerator.generate_sql(question)
RunNLP ==
    /\ path = "none"
    /\ path' = "nlp"
    /\ sql' = NLP_generate_sql(question)
    /\ UNCHANGED <<question, genVars, factoryVars>>
    /\ UNCHANGED <<apiVars, monitorVars>>

NextRules == RunPattern \/ RunLLMRules \/ RunNLP

SpecRules == InitRules /\ [][NextRules]_vars

(***************************************************************************)
(* Spec: one generate_sql call of an LLM-backed generator                  *)
(***************************************************************************)
Init ==
    /\ gen \in Generators
    /\ question \in GenQuestions
    /\ gpc = "start"
    /\ response = NoResponse
    /\ requests = <<>>
    /\ outcome = NoOutcome
    /\ RulesIdle
    /\ FactoryIdle
    /\ ApiIdle
    /\ MonitorIdle

\* generate_sql with no client: the rule fallback at once
GenerateNoClient ==
    /\ gpc = "start"
    /\ ~Truthy(gen.llm_client)
    /\ outcome' = Return(_generate_with_rules(question))
    /\ gpc' = "done"
    /\ UNCHANGED <<question, gen, response, requests, rulesVars, factoryVars>>
    /\ UNCHANGED <<apiVars, monitorVars>>

\* generate_sql with a client, up to the return of chat.completions.create: the
\* one completion request is sent and the client answers or raises
CallClient ==
    /\ gpc = "start"
    /\ Truthy(gen.llm_client)
    /\ \E resp \in Responses, model_exists \in BOOLEAN :
        /\ (gen.llm_client # "local" \/ gen.cls = "CustomOpenAIGenerator") => ~model_exists
        /\ requests' = Append(requests, Request(gen, question, model_exists))
        /\ response' = resp
    /\ gpc' = "replied"
    /\ UNCHANGED <<question, gen, outcome, rulesVars, factoryVars>>
    /\ UNCHANGED <<apiVars, monitorVars>>

\* a request that raised is sent once more before the fallback
Complete_Retry ==
    /\ gpc = "replied"
    /\ IF response.kind = "raise" /\ Len(requests) < 2
       THEN /\ requests' = Append(requests, requests[1])
            /\ \E resp \in Responses : response' = resp
            /\ UNCHANGED <<gpc, outcome>>
       ELSE /\ outcome' = generate_with_llm(gen, question, response)
            /\ gpc' = "done"
            /\ UNCHANGED <<response, requests>>
    /\ UNCHANGED <<question, gen, rulesVars, factoryVars>>
    /\ UNCHANGED <<apiVars, monitorVars>>

\* the rest of _generate_with_llm: extraction, validation, rule fallback
Complete ==
    /\ gpc = "replied"
    /\ outcome' = generate_with_llm(gen, question, response)
    /\ gpc' = "done"
    /\ UNCHANGED <<question, gen, response, requests, rulesVars, factoryVars>>
    /\ UNCHANGED <<apiVars, monitorVars>>

Next == GenerateNoClient \/ CallClient \/ Complete

Spec == Init /\ [][Next]_vars

(***************************************************************************)
(* SpecFactory: a GeneratorFactory is constructed, then asked for          *)
(* generators                                                              *)
(***************************************************************************)
\* the create_generator calls made on one factory
MaxCalls == 2

JobModelId == "ft:gpt-3.5-turbo:job"

\* what the probes of __init__ can meet
ProbeOutcomes ==
    [openai : {"import_error", "no_key", "other_exception", "test_fails", "ok"},
     env_model : {None, "", CustomModelId},
     job : {"raises", None, "", JobModelId},
     local : {"status_not_200", "no_models", "request_exception", "other_exception", "ok"}]

GeneratorTypes == {"rule", "openai", "local", "custom", "auto", "", "nlp"}

InitFactory ==
    /\ fpc = "new"
    /\ probes = NoProbes
    /\ factory = NoFactory
    /\ heap = <<>>
    /\ calls = <<>>
    /\ question = ""
    /\ RulesIdle
    /\ GenIdle
    /\ ApiIdle
    /\ MonitorIdle

\* GeneratorFactory(schema_info)
Construct ==
    /\ fpc = "new"
    /\ \E p \in ProbeOutcomes :
        LET r == GeneratorFactory_init(p) IN
        /\ probes' = p
        /\ fpc' = IF r.kind = "raise" THEN "raised" ELSE "ready"
        /\ factory' = IF r.kind = "raise" THEN factory ELSE r.value
    /\ UNCHANGED <<question, rulesVars, genVars, heap, calls>>
    /\ UNCHANGED <<apiVars, monitorVars>>

\* factory.create_generator(generator_type)
CreateGenerator ==
    /\ fpc = "ready"
    /\ Len(calls) < MaxCalls
    /\ \E t \in GeneratorTypes :
        LET r == create_generator(factory, heap, t) IN
        /\ heap' = r.heap
        /\ calls' = Append(calls, [type |-> t, ref |-> r.ref, label |-> r.label])
    /\ UNCHANGED <<question, rulesVars, genVars, fpc, probes, factory>>
    /\ UNCHANGED <<apiVars, monitorVars>>

NextFactory == Construct \/ CreateGenerator

SpecFactory == InitFactory /\ [][NextFactory]_vars

(***************************************************************************)
(* Claims about the LLM-backed generators and the rule-based paths         *)
(***************************************************************************)
\* C1: every string generate_sql of an LLM-backed generator returns starts with
\* SELECT (case-insensitive) and contains FROM, whatever the LLM replied.
C1_ReturnedSqlIsValidated ==
    gpc = "done" =>
        /\ outcome.kind = "return"
        /\ StartsWith(Upper(outcome.value), "SELECT")
        /\ Contains(Upper(outcome.value), "FROM")

\* C2: when the completion call raises, generate_sql returns exactly the SQL
\* PatternSQLGenerator.generate_sql returns for the same question.
C2_FallbackEqualsPattern ==
    (gpc = "done" /\ response.kind = "raise") =>
        outcome = Return(Pattern_generate_sql(question))

\* C3: generate_sql of an LLM-backed generator never raises: with no client, a
\* raising client, a reply with no choices, a None content or a reply without
\* SQL, the call ends by returning a string; the call has no loop, so every
\* position before the end has its one next step.
C3_NeverRaises ==
    /\ gpc = "done" => (outcome.kind = "return" /\ outcome.value # None)
    /\ gpc \in {"start", "replied", "done"}
    /\ gpc = "replied" => response.kind # "none"

C3_Witness ==
    /\ gpc = "done"
    /\ gen.cls = "CustomOpenAIGenerator"
    /\ response.kind = "null"
    /\ outcome.kind = "return"

\* the words of a ranking question (LLMSQLGenerator._predict_intent)
RankingWords == {"highest", "lowest", "top", "bottom", "minimum", "maximum", "most",
                 "least", "lower", "higher", "smaller", "larger"}

BreachTemplate ==
    "SELECT \n    counterparty_name, \n    CAST(mpe AS DECIMAL(15,2)) as current_mpe, \n    CAST(mpe_limit AS DECIMAL(15,2)) as mpe_limit \nFROM counterparty_new \nWHERE CAST(mpe AS DECIMAL(15,2)) > CAST(mpe_limit AS DECIMAL(15,2)) \nORDER BY current_mpe DESC;"

\* C4: breach precedence: in every rule-based path a question with a ranking
\* word and 'breach' or 'limit' yields the fixed breach template.
C4_BreachPrecedence ==
    (/\ path \in {"pattern", "llm_rules", "nlp"}
     /\ AnyIn(Lower(question), RankingWords)
     /\ AnyIn(Lower(question), {"breach", "limit"})) => sql = BreachTemplate

(***************************************************************************)
(* Claims about the GeneratorFactory                                       *)
(***************************************************************************)
\* the object a call returned; ref 0 is no object (None)
Returned(c) == IF c.ref \in 1..Len(heap) THEN heap[c.ref] ELSE NoGenerator

OpenAIAvailable == factory._openai_client # None
LocalAvailable == factory._local_client # None
CustomAvailable == factory._custom_model # None /\ factory._openai_client # None

IsFineTuned(g) ==
    /\ g.cls = "CustomOpenAIGenerator"
    /\ g.llm_client = factory._openai_client
    /\ g.custom_model = factory._custom_model
IsPlainOpenAI(g) ==
    /\ g.cls = "CustomOpenAIGenerator"
    /\ g.llm_client = factory._openai_client
    /\ g.custom_model = None
IsLocalLLM(g) ==
    /\ g.cls = "EnhancedLLMGenerator"
    /\ g.llm_client = factory._local_client
IsRuleBased(g) == g = PatternObject

\* C5: create_generator('auto') returns the highest-priority available backend
\* in the order fine-tuned custom model, plain OpenAI, local, rule-based.
C5_AutoPriority ==
    \A i \in 1..Len(calls) : calls[i].type = "auto" =>
        LET g == Returned(calls[i]) IN
        /\ CustomAvailable => IsFineTuned(g)
        /\ (~CustomAvailable /\ OpenAIAvailable) => IsPlainOpenAI(g)
        /\ (~CustomAvailable /\ ~OpenAIAvailable /\ LocalAvailable) => IsLocalLLM(g)
        /\ (~CustomAvailable /\ ~OpenAIAvailable /\ ~LocalAvailable) => IsRuleBased(g)

\* an 'auto' call on a factory with the local client only
C5_Witness ==
    \E i \in 1..Len(calls) :
        /\ calls[i].type = "auto"
        /\ ~OpenAIAvailable /\ LocalAvailable
        /\ IsLocalLLM(Returned(calls[i]))

\* C6: an explicit request for an unavailable backend degrades: 'openai' and
\* 'local' to the rule-based generator, 'custom' to the plain OpenAI generator
\* (no custom model set) when only the model id is missing and to the rule-based
\* generator when the OpenAI client is missing; the label then differs from the
\* non-degraded one and names the backend that was unavailable.
C6_Degradation ==
    \A i \in 1..Len(calls) :
        LET g == Returned(calls[i])
            t == calls[i].type
            label == calls[i].label
        IN
        /\ (t = "openai" /\ ~OpenAIAvailable) =>
            /\ IsRuleBased(g)
            /\ label # "Custom OpenAI GPT"
            /\ Contains(label, "OpenAI unavailable")
        /\ (t = "local" /\ ~LocalAvailable) =>
            /\ IsRuleBased(g)
            /\ label # "Local LLM (Enhanced)"
            /\ Contains(label, "Local LLM unavailable")
        /\ (t = "custom" /\ factory._custom_model = None /\ OpenAIAvailable) =>
            /\ IsPlainOpenAI(g)
            /\ ~StartsWith(label, "Custom Fine-tuned GPT")
            /\ Contains(label, "Custom unavailable")
        /\ (t = "custom" /\ ~OpenAIAvailable) =>
            /\ IsRuleBased(g)
            /\ ~StartsWith(label, "Custom Fine-tuned GPT")
            /\ Contains(label, "Custom unavailable")

\* a 'custom' call on a factory with an OpenAI client and no custom model
C6_Witness ==
    \E i \in 1..Len(calls) :
        /\ calls[i].type = "custom"
        /\ factory._custom_model = None /\ OpenAIAvailable
        /\ IsPlainOpenAI(Returned(calls[i]))

\* C7: create_generator('rule') returns a PatternSQLGenerator and a label
\* containing 'Rule-based' in every availability state.
C7_RuleAlwaysRuleBased ==
    \A i \in 1..Len(calls) : calls[i].type = "rule" =>
        /\ Returned(calls[i]).cls = "PatternSQLGenerator"
        /\ Contains(calls[i].label, "Rule-based")

\* a 'rule' call on a factory where every backend is available
C7_Witness ==
    \E i \in 1..Len(calls) :
        /\ calls[i].type = "rule"
        /\ CustomAvailable /\ LocalAvailable
        /\ Returned(calls[i]).cls = "PatternSQLGenerator"

KnownTypes == {"rule", "openai", "local", "custom", "auto"}

\* C8: create_generator is total: every requested type yields a generator and
\* a label, and a type other than rule, openai, local, custom, auto yields the
\* rule-based generator.
C8_Total ==
    \A i \in 1..Len(calls) :
        /\ Returned(calls[i]).cls \in {"PatternSQLGenerator", "EnhancedLLMGenerator",
                                       "CustomOpenAIGenerator"}
        /\ calls[i].label # None
        /\ calls[i].type \notin KnownTypes => IsRuleBased(Returned(calls[i]))

\* a call with the empty string as the type, on a factory with an OpenAI client
C8_Witness ==
    \E i \in 1..Len(calls) :
        /\ calls[i].type = ""
        /\ OpenAIAvailable
        /\ IsRuleBased(Returned(calls[i]))

\* C9: constructing the factory never raises, and a failed probe only leaves
\* its own provider's client (or the model id) as None.
C9_ConstructionNeverRaises ==
    /\ fpc # "raised"
    /\ fpc = "ready" =>
        /\ OpenAIAvailable <=> probes.openai = "ok"
        /\ LocalAvailable <=> probes.local = "ok"
        /\ factory._custom_model # None =>
            /\ probes.openai = "ok"
            /\ factory._custom_model \in {probes.env_model, probes.job}
        /\ (probes.openai = "ok" /\ ~Truthy(probes.env_model)
                /\ probes.job \in {"raises", None, ""}) => factory._custom_model = None

\* the OpenAI test call failed and the job lookup would raise, the local probe
\* succeeded: the factory is ready with the local client only
C9_Witness ==
    /\ fpc = "ready"
    /\ probes.openai = "test_fails"
    /\ probes.job = "raises"
    /\ probes.local = "ok"
    /\ ~OpenAIAvailable /\ LocalAvailable

\* the same type asked twice gives the same class, custom model, client and label
SameTypeSameResult ==
    \A i, j \in 1..Len(calls) : calls[i].type = calls[j].type =>
        /\ Returned(calls[i]) = Returned(calls[j])
        /\ calls[i].label = calls[j].label

\* an 'openai' call returns a generator with no custom model set
OpenAIHasNoCustomModel ==
    \A i \in 1..Len(calls) : calls[i].type = "openai" => Returned(calls[i]).custom_model = None

\* C10: availability is fixed for the factory's lifetime: a create_generator
\* call changes no field of the factory and no generator returned earlier, so
\* the result for a type is the same at every call, and an 'openai' call
\* returns a generator with no custom model set, also after a 'custom' call.
C10_AvailabilityFixed ==
    [][fpc = "ready" =>
        /\ factory' = factory
        /\ \A i \in 1..Len(calls) : calls'[i] = calls[i] /\ heap'[calls[i].ref] = heap[calls[i].ref]
        /\ SameTypeSameResult'
        /\ OpenAIHasNoCustomModel']_vars

\* a 'custom' call that returned the fine-tuned generator, then an 'openai' call
C10_Witness ==
    /\ Len(calls) >= 2
    /\ calls[1].type = "custom"
    /\ calls[2].type = "openai"
    /\ heap[calls[1].ref].custom_model # None
    /\ heap[calls[2].ref].custom_model = None

(***************************************************************************)
(* Claims about the templates of the rule-based paths                      *)
(***************************************************************************)
\* the statements PatternSQLGenerator builds that take no LIMIT number
TemplateCatalogue ==
    {_build_rating_notional_query, _build_trade_count_query, _build_highest_trade_query,
     _build_limit_breach_query, _build_rating_distribution_query,
     _build_sector_average_query}
    \cup {_build_counterparty_notional_query(o) : o \in {"ASC", "DESC"}}
    \cup {_build_sector_exposure_query(o) : o \in {"ASC", "DESC"}}
    \cup {_build_concentration_group_query(o) : o \in {"ASC", "DESC"}}
    \cup {"SELECT * FROM concentration_new LIMIT 20;",
          "SELECT * FROM counterparty_new LIMIT 20;",
          "SELECT * FROM trade_new LIMIT 20;"}

\* s is the counterparty-by-MPE ranking template with a run of digits as its LIMIT
IsTopMpeTemplate(s) ==
    LET head == _build_top_counterparties_mpe_query("")
        n == Len(head) - 1
    IN /\ Len(s) > Len(head)
       /\ SubSeq(s, 1, n) = SubSeq(head, 1, n)
       /\ Char(s, Len(s)) = ";"
       /\ \A i \in (n + 1)..(Len(s) - 1) : IsDigit(Char(s, i))

\* C11: PatternSQLGenerator.generate_sql is total: for every question it
\* returns a statement of the template catalogue, starting with SELECT and
\* ending with ';', in which only the order direction and the LIMIT number (a
\* run of digits) vary; no other text of the question reaches the SQL.
C11_PatternTotal ==
    path = "pattern" =>
        /\ sql # None
        /\ StartsWith(sql, "SELECT")
        /\ EndsWith(sql, ";")
        /\ sql \in TemplateCatalogue \/ IsTopMpeTemplate(sql)

\* a question with a number and further words, answered by the ranking template
C11_Witness ==
    /\ path = "pattern"
    /\ question = "top 7 counterparties by MPE"
    /\ IsTopMpeTemplate(sql)
    /\ EndsWith(sql, "LIMIT 7;")

\* the direction words of a sector-exposure question
AscendingWords == {"minimum", "lowest", "smallest", "least"}
DescendingWords == {"maximum", "highest", "largest"}

\* C12: in PatternSQLGenerator.generate_sql a question containing 'sector' and
\* 'exposure' with one direction word yields the sector-exposure template,
\* ASC LIMIT 1 for minimum, lowest, smallest, least and DESC LIMIT 1 for
\* maximum, highest, largest.
C12_SectorExposureDirection ==
    LET q == Lower(question) IN
    (path = "pattern" /\ Contains(q, "sector") /\ Contains(q, "exposure")) =>
        /\ (\E w \in AscendingWords :
                Contains(q, w) /\ ~AnyIn(q, (AscendingWords \cup DescendingWords) \ {w}))
            => sql = _build_sector_exposure_query("ASC")
        /\ (\E w \in DescendingWords :
                Contains(q, w) /\ ~AnyIn(q, (AscendingWords \cup DescendingWords) \ {w}))
            => sql = _build_sector_exposure_query("DESC")

\* C13: for a question containing 'counterpart', 'highest' and 'mpe',
\* PatternSQLGenerator.generate_sql returns SQL that contains counterparty_name
\* and mpe and has an ORDER BY clause with DESC.
C13_HighestMpeRanked ==
    LET q == Lower(question) IN
    (path = "pattern" /\ _matches_pattern(q, {"counterpart", "highest", "mpe"})) =>
        /\ Contains(sql, "counterparty_name")
        /\ Contains(sql, "mpe")
        /\ Contains(sql, "ORDER BY")
        /\ Contains(sql, "DESC")

\* the number written in a question: its first run of digits, '10' when it has
\* no digit
NumberWritten(text) ==
    LET ds == {i \in 1..Len(text) : IsDigit(Char(text, i))}
    IN IF ds = {} THEN "10"
       ELSE LET first == SetMin(ds)
                last == SetMin({j \in ds : j >= first /\ (j + 1) \notin ds})
            IN SubSeq(text, first, last)

\* the LIMIT of a counterparty-by-MPE ranking statement
LimitOf(s) == SubSeq(s, Len(_build_top_counterparties_mpe_query("")), Len(s) - 1)

\* C14: for every question containing 'top', 'counterpart' and 'mpe',
\* PatternSQLGenerator.generate_sql returns the counterparty-by-MPE ranking
\* template with LIMIT n, n the first run of digits of the question, and with
\* LIMIT 10 when the question has no digit.
C14_NumericLimit ==
    LET q == Lower(question) IN
    (path = "pattern" /\ _matches_pattern(q, {"top", "counterpart", "mpe"})) =>
        /\ IsTopMpeTemplate(sql)
        /\ LimitOf(sql) = NumberWritten(question)

\* a question with two numbers: the first one is the LIMIT
C14_Witness ==
    /\ path = "pattern"
    /\ question = "Top 25 counterparties by MPE in 2024"
    /\ LimitOf(sql) = "25"

\* the vocabulary of LLMSQLGenerator._predict_intent after the ranking words
CountPhrases == {"how many", "count", "number of"}
AggregationWords == {"average", "mean", "sum", "total"}
BreachWords == {"breach", "exceed", "violate", "limit"}

TradeCountTemplate ==
    "SELECT \n    cp.counterparty_name, \n    COUNT(t.id) as trade_count \nFROM counterparty_new cp \nLEFT JOIN trade_new t ON cp.counterparty_id = t.reporting_counterparty_id \nGROUP BY cp.counterparty_id, cp.counterparty_name \nORDER BY trade_count DESC;"

\* C15: every question containing 'how many' and no breach/limit vocabulary
\* (and no ranking word) yields the trade-count-per-counterparty template, in
\* PatternSQLGenerator.generate_sql and in the rule fallback of the LLM adapter.
C15_HowManyIsCount ==
    LET q == Lower(question) IN
    (/\ path \in {"pattern", "llm_rules"}
     /\ Contains(q, "how many")
     /\ ~AnyIn(q, BreachWords)
     /\ ~AnyIn(q, RankingWords)) => sql = TradeCountTemplate

\* C16: in the rule fallback of the LLM adapter a question that mentions
\* counterparties and breach vocabulary, with no ranking word and none of the
\* count phrases as words, yields the breach template.
C16_RulesBreachQuery ==
    LET q == Lower(question) IN
    (/\ path = "llm_rules"
     /\ Contains(q, "counterpart")
     /\ AnyIn(q, BreachWords)
     /\ ~AnyIn(q, RankingWords)
     /\ ~Contains(q, "how many") /\ ~Contains(q, "number of")
     /\ "count" \notin Words(q)) => sql = BreachTemplate

RatingDistributionTemplate ==
    "SELECT \n    internal_rating, \n    COUNT(*) as count, \n    SUM(CAST(mpe AS DECIMAL(15,2))) as total_exposure \nFROM counterparty_new \nWHERE internal_rating IS NOT NULL \nGROUP BY internal_rating \nORDER BY total_exposure DESC;"

\* C17: a question that resolves to distribution_query (it contains
\* 'distribution' and no word of an earlier intent rule) yields the
\* rating-distribution template, in PatternSQLGenerator.generate_sql and in the
\* rule fallback of the LLM adapter.
C17_DistributionTemplate ==
    LET q == Lower(question) IN
    (/\ path \in {"pattern", "llm_rules"}
     /\ Contains(q, "distribution")
     /\ ~AnyIn(q, RankingWords \cup CountPhrases \cup AggregationWords \cup BreachWords))
        => sql = RatingDistributionTemplate

SectorAverageTemplate ==
    "SELECT \n    cp.counterparty_sector, \n    AVG(CAST(t.notional_usd AS DECIMAL(15,2))) as avg_notional \nFROM trade_new t \nJOIN counterparty_new cp ON t.reporting_counterparty_id = cp.counterparty_id \nWHERE cp.counterparty_sector IS NOT NULL \nGROUP BY cp.counterparty_sector \nORDER BY avg_notional DESC;"

DefaultQueries ==
    {"SELECT * FROM concentration_new LIMIT 20;",
     "SELECT * FROM counterparty_new LIMIT 20;",
     "SELECT * FROM trade_new LIMIT 20;"}

\* C18: an aggregation question (an aggregation word and no ranking, count or
\* breach vocabulary) that mentions 'average' and 'sector' yields the
\* AVG(notional)-per-sector template, and one without that pair a default
\* SELECT * ... LIMIT 20 query, in all three rule-based paths.
C18_AverageSector ==
    LET q == Lower(question) IN
    (/\ path \in {"pattern", "llm_rules", "nlp"}
     /\ AnyIn(q, AggregationWords)
     /\ ~AnyIn(q, RankingWords \cup CountPhrases \cup BreachWords)) =>
        IF Contains(q, "average") /\ Contains(q, "sector")
        THEN sql = SectorAverageTemplate
        ELSE sql \in DefaultQueries

\* the keyword lists generate_sql tests with _matches_pattern before its default
TemplatePatterns ==
    {{"top", "counterpart", "mpe"},
     {"rating", "highest", "notional"},
     {"counterpart", "highest", "notional"},
     {"counterpart", "lowest", "notional"},
     {"how many trades", "counterpart"},
     {"highest", "trade", "notional"},
     {"distribution", "rating"},
     {"concentration", "group", "lowest", "exposure"},
     {"concentration", "group", "minimum", "exposure"},
     {"concentration", "lowest", "aggregate"},
     {"concentration", "group", "highest", "exposure"},
     {"concentration", "group", "maximum", "exposure"},
     {"average", "sector", "notional"},
     {"sector", "lowest", "exposure"},
     {"sector", "minimum", "exposure"},
     {"sector", "smallest", "exposure"},
     {"sector", "least", "exposure"},
     {"sector", "highest", "exposure"},
     {"sector", "largest", "exposure"},
     {"sector", "concentration", "exposure"}}

\* some test of generate_sql before the default succeeds on the lower-cased question
MatchesSomePattern(q) ==
    _matches_any_pattern(q, TemplatePatterns) \/ _matches_any(q, {"breach", "limit"})

\* C19: when no template pattern matches, the empty question included,
\* PatternSQLGenerator.generate_sql returns exactly SELECT * FROM <t> LIMIT 20;
\* with t concentration_new if the question contains 'concentration', else
\* counterparty_new if it contains 'counterpart', else trade_new if it contains
\* 'trade', else concentration_new (the question is read in lower case).
C19_DefaultQuery ==
    LET q == Lower(question)
        t == IF Contains(q, "concentration") THEN "concentration_new"
             ELSE IF Contains(q, "counterpart") THEN "counterparty_new"
             ELSE IF Contains(q, "trade") THEN "trade_new"
             ELSE "concentration_new"
    IN (path = "pattern" /\ ~MatchesSomePattern(q)) =>
            sql = "SELECT * FROM " \o t \o " LIMIT 20;"

\* a question naming both 'concentration' and 'counterparty' that matches no
\* pattern: the concentration table wins
C19_Witness ==
    /\ path = "pattern"
    /\ question = "concentration and counterparty overview"
    /\ ~MatchesSomePattern(Lower(question))
    /\ sql = "SELECT * FROM concentration_new LIMIT 20;"

(***************************************************************************)
(* SpecExtract: one call of CustomOpenAIGenerator._extract_sql on a reply  *)
(***************************************************************************)
\* the longest reply built from the fragments, in lines
MaxParts == 3

\* lines of a reply; BT stands for a backtick
ReplyLines == {"~~~sql", "~~~", "SELECT a FROM t;", "select a", "from t;", "table t", "  "}

ExtractReplies ==
    Replies
    \cup {JoinLines(ls) : ls \in UNION {[1..n -> ReplyLines] : n \in 1..MaxParts}}
    \cup {"~~~\ntable t\n~~~\nAnd the query:\n~~~sql\nSELECT a FROM t WHERE",
          "~~~python\nSELECT 1;\n~~~",
          "Use ~~~sql SELECT a FROM t; ~~~ please"}

InitExtract ==
    /\ response \in {[kind |-> "text", content |-> r] : r \in ExtractReplies}
    /\ path = "none"
    /\ sql = None
    /\ question = ""
    /\ gen = NoGenerator /\ gpc = "idle" /\ requests = <<>> /\ outcome = NoOutcome
    /\ FactoryIdle
    /\ ApiIdle
    /\ MonitorIdle

\* CustomOpenAIGenerator._extract_sql(content)
RunExtractSql ==
    /\ path = "none"
    /\ path' = "extract_sql"
    /\ sql' = _extract_sql(response.content)
    /\ UNCHANGED <<question, genVars, factoryVars>>
    /\ UNCHANGED <<apiVars, monitorVars>>

NextExtract == RunExtractSql

SpecExtract == InitExtract /\ [][NextExtract]_vars

\* the extraction steps taken in order: the contents of a closed sql block,
\* else of any closed block, else the SELECT lines, else the trimmed reply
ExtractInOrder(content) ==
    LET sql_block == IF Contains(content, Fence \o "sql")
                     THEN FencedBlock(content, Fence \o "sql") ELSE None
        any_block == IF Contains(content, Fence) THEN FencedBlock(content, Fence) ELSE None
        scanned == CustomScanLines(SplitLines(content), FALSE)
    IN IF sql_block # None THEN sql_block
       ELSE IF any_block # None THEN any_block
       ELSE IF scanned # <<>> THEN JoinLines(scanned)
       ELSE Strip(content)

\* C20: _extract_sql applies its steps in order for every reply: the contents
\* of a closed sql fenced block; otherwise the contents of any closed fenced
\* block; otherwise the lines from the first one starting with SELECT through
\* the first one ending in ';'; otherwise the trimmed reply.
C20_ExtractionOrder ==
    path = "extract_sql" => sql = ExtractInOrder(response.content)

(***************************************************************************)
(* Claims about the completion request and the validation of the reply     *)
(***************************************************************************)
\* C21: with a custom model id set on a CustomOpenAIGenerator the completion
\* request carries that id and one message, the question verbatim with no
\* system prompt; with none set (None or the empty string) it carries
\* gpt-3.5-turbo and the system prompt followed by the question.  What is
\* returned depends on the question and the reply alone, not on the model id.
C21_RequestContents ==
    (gen.cls = "CustomOpenAIGenerator" /\ gpc \in {"replied", "done"} /\ Truthy(gen.llm_client)) =>
        /\ Len(requests) = 1
        /\ IF Truthy(gen.custom_model)
           THEN /\ requests[1].model = gen.custom_model
                /\ requests[1].messages = <<[role |-> "user", content |-> question]>>
           ELSE /\ requests[1].model = "gpt-3.5-turbo"
                /\ requests[1].messages = <<[role |-> "system", content |-> SystemPrompt],
                                            [role |-> "user", content |-> question]>>
        /\ gpc = "done" => outcome = Custom_generate_with_llm(question, response)

\* a finished call of a generator with the fine-tuned model set
C21_Witness ==
    /\ gpc = "done"
    /\ gen.cls = "CustomOpenAIGenerator"
    /\ gen.custom_model = CustomModelId
    /\ Len(requests) = 1
    /\ requests[1].model = CustomModelId
    /\ Len(requests[1].messages) = 1
    /\ response.kind = "text"

\* the request failed or its reply has no text
NoUsableReply == response.kind # "text" \/ response.content = ""

ValidCandidate(c) ==
    /\ StartsWith(Upper(Strip(c)), "SELECT")
    /\ Contains(Upper(c), "FROM")
    /\ Len(c) > 10
    /\ \A phrase \in {"the answer is", "group c", "total exposure of", "lowest aggregate",
                      "concentration group"} : ~Contains(Lower(c), phrase)

\* C25: for CustomOpenAIGenerator the SQL returned for a reply is the extracted
\* candidate exactly when the candidate is valid (SELECT first, FROM, more than
\* 10 characters, no deny-list phrase); in every other case, an exception
\* included, it is _generate_with_rules(question).
C25_ValidOrFallback ==
    (gpc = "done" /\ gen.cls = "CustomOpenAIGenerator" /\ Truthy(gen.llm_client)) =>
        IF response.kind = "text" /\ ValidCandidate(_extract_sql(Strip(response.content)))
        THEN outcome = Return(_extract_sql(Strip(response.content)))
        ELSE outcome = Return(_generate_with_rules(question))

\* a reply that starts with Select and contains from, refused for its phrase
\* of the deny list alone
C25_Witness ==
    /\ gpc = "done"
    /\ gen.cls = "CustomOpenAIGenerator"
    /\ response.kind = "text"
    /\ response.content = "Select the rows from the table, the answer is 42"
    /\ outcome = Return(_generate_with_rules(question))

(***************************************************************************)
(* Claims about the concepts and the direction of a question               *)
(***************************************************************************)
\* the closed vocabulary of concepts
ConceptVocabulary ==
    {"highest", "lowest", "counterparty", "sector", "rating", "trade", "exposure",
     "notional", "mpe", "breach", "count", "distribution", "average"}

\* C24: NLPSQLGenerator._extract_concepts returns only members of the closed
\* concept vocabulary; tokens matching no synonym are ignored, so the empty
\* question and a question of unknown words both give the empty set.
C24_ClosedConcepts ==
    path = "nlp" => _extract_concepts(question) \subseteq ConceptVocabulary

\* the sector-exposure ranking template with a given order
SectorExposureTemplate(order) ==
    "SELECT \n    counterparty_sector, \n    SUM(CAST(mpe AS DECIMAL(15,2))) as total_exposure \nFROM counterparty_new \nWHERE counterparty_sector IS NOT NULL \nGROUP BY counterparty_sector \nORDER BY total_exposure "
    \o order \o " \nLIMIT 1;"

AscendingDirections == {"minimum", "lowest", "smallest", "least"}
DescendingDirections == {"maximum", "highest", "largest"}

\* C26: in the rule fallback of the LLM adapter a question about sector
\* exposure with a direction word yields the sector-exposure template, ending
\* ORDER BY total_exposure ASC LIMIT 1 for minimum, lowest, smallest or least
\* and ORDER BY total_exposure DESC LIMIT 1 for maximum, highest or largest.
C26_SectorExposureRanking ==
    LET q == Lower(question)
        ws == Words(q)
    IN (/\ path = "llm_rules"
        /\ _extract_entity(q) = "sector"
        /\ _extract_metric(q) = "exposure"
        /\ (ws \cap AscendingDirections = {}) # (ws \cap DescendingDirections = {})) =>
            sql = SectorExposureTemplate(IF ws \cap AscendingDirections # {} THEN "ASC" ELSE "DESC")

LowestDirectionWords == {"lowest", "minimum", "least", "smallest", "lower", "min"}

\* C27: in the rule fallback of the LLM adapter the order of a ranking query
\* is ASC exactly when the question contains one of lowest, minimum, least,
\* smallest, lower, min as a word, and DESC otherwise.
C27_DirectionByWord ==
    LET q == Lower(question) IN
    (path = "llm_rules" /\ _predict_intent(q) = "ranking_query") =>
        sql = _build_ranking_query(_extract_entity(q), _extract_metric(q),
                                   IF Words(q) \cap LowestDirectionWords # {} THEN "lowest" ELSE "highest", q)

\* s stands in q as whole words
HasPhrase(q, s) ==
    \E i \in 1..(Len(q) - Len(s) + 1) :
        /\ SubSeq(q, i, i + Len(s) - 1) = s
        /\ (i = 1 \/ ~IsWordChar(Char(q, i - 1)))
        /\ (i + Len(s) - 1 = Len(q) \/ ~IsWordChar(Char(q, i + Len(s))))

\* C28: for every concept c of the synonym table and every synonym s listed
\* for c, a question that contains s is classified with c among its concepts.
C28_EverySynonymMapped ==
    path = "nlp" =>
        \A i \in 1..Len(synonyms) : \A s \in synonyms[i][2] :
            HasPhrase(Lower(question), s) => synonyms[i][1] \in _extract_concepts(question)

(***************************************************************************)
(* Claims about the custom model of a factory                              *)
(***************************************************************************)
\* the key is reported, and reported available
Reported(status, k) ==
    k \in DOMAIN status.available_generators /\ status.available_generators[k]

\* C29: after GeneratorFactory construction a custom model id is set only if
\* the OpenAI client is available, and it is never the empty string; GET /status
\* never reports custom available with openai unavailable; _has_custom_model()
\* is true exactly when create_generator('custom') returns the fine-tuned
\* generator, labelled 'Custom Fine-tuned GPT (...)'.
C29_CustomModelImpliesClient ==
    fpc = "ready" =>
        /\ factory._custom_model # None =>
              factory._openai_client # None /\ factory._custom_model # ""
        /\ \A schema \in {"ok", "raises"} :
              Reported(get_status(schema, probes), "custom") =>
                  Reported(get_status(schema, probes), "openai")
        /\ \A i \in 1..Len(calls) :
              calls[i].type = "custom" =>
                  (_has_custom_model(factory) <=>
                      /\ StartsWith(calls[i].label, "Custom Fine-tuned GPT (")
                      /\ heap[calls[i].ref].cls = "CustomOpenAIGenerator"
                      /\ heap[calls[i].ref].custom_model = factory._custom_model)

\* OPENAI_CUSTOM_MODEL is set to the empty string and the job names a model: the
\* factory has a custom model, /status reports it, 'custom' returns it
C29_Witness ==
    /\ fpc = "ready"
    /\ probes.env_model = ""
    /\ probes.job = JobModelId
    /\ _has_custom_model(factory)
    /\ Reported(get_status("ok", probes), "custom")
    /\ \E i \in 1..Len(calls) :
          /\ calls[i].type = "custom"
          /\ calls[i].label = "Custom Fine-tuned GPT (" \o JobModelId \o ")"

(***************************************************************************)
(* SpecQuery: one POST /query request (api/routes.py generate_sql)         *)
(***************************************************************************)
\* an exception with its message
RaiseWith(message) == [kind |-> "raise", value |-> message]

\* QueryResponse(...): error defaults to None, columns and rows to empty lists
QueryResponse(sql_query, columns, rows, error, generator_used) ==
    [kind |-> "response", status |-> 200, sql_query |-> sql_query, columns |-> columns,
     rows |-> rows, error |-> error, generator_used |-> generator_used, detail |-> None]

\* raise HTTPException(status_code, detail)
HTTPException(status_code, detail) ==
    [kind |-> "exception", status |-> status_code, sql_query |-> None, columns |-> <<>>,
     rows |-> <<>>, error |-> None, generator_used |-> None, detail |-> detail]

\* what the database does with a statement: a result set, or an error
DatabaseResults ==
    {[kind |-> "rows", columns |-> <<"counterparty_name">>, rows |-> <<"row1", "row2">>, message |-> None],
     [kind |-> "rows", columns |-> <<>>, rows |-> <<>>, message |-> None],
     [kind |-> "raise", columns |-> <<>>, rows |-> <<>>, message |-> "syntax error"],
     [kind |-> "raise", columns |-> <<>>, rows |-> <<>>, message |-> "connection lost"]}

\* DatabaseManager.execute_query: any exception is raised again with a prefix
execute_query(statement, db) ==
    IF db.kind = "raise" THEN RaiseWith("Query execution failed: " \o db.message)
    ELSE Return([columns |-> db.columns, rows |-> db.rows])

\* the inner except clause answering with HTTP 500
execute_failed_Http500(statement, e, generator_used) == HTTPException(500, e.value)

\* the inner except clause of the handler: a response with the error
execute_failed(statement, e, generator_used) ==
    QueryResponse(statement, <<>>, <<>>, e.value, generator_used)

\* the inner try of the handler
execute_and_respond(statement, db, generator_used) ==
    LET r == execute_query(statement, db) IN
    IF r.kind = "raise" THEN execute_failed(statement, r, generator_used)
    ELSE QueryResponse(statement, r.value.columns, r.value.rows, None, generator_used)

\* the questions and generator types of the requests, what the factory's probes
\* meet and what the client answers
QueryQuestions == {"", "Which sector has the lowest exposure?", "top 7 counterparties by MPE"}
QueryProbes ==
    {p \in ProbeOutcomes :
        /\ p.openai \in {"no_key", "ok"}
        /\ p.env_model \in {None, CustomModelId}
        /\ p.job = None
        /\ p.local \in {"request_exception", "ok"}}
QueryReplies ==
    {[kind |-> "raise", content |-> None],
     [kind |-> "text", content |-> "~~~sql\nSELECT name FROM t;\n~~~"],
     [kind |-> "text", content |-> "select a from t"],
     [kind |-> "text", content |-> "The answer is Group C"]}

InitQuery ==
    /\ question \in QueryQuestions
    /\ hpc = "start"
    /\ executed = <<>>
    /\ http = NoHttp
    /\ RulesIdle
    /\ GenIdle
    /\ FactoryIdle
    /\ MonitorIdle

\* db_manager.extract_schema(), GeneratorFactory(schema_info) and
\* factory.create_generator(request.generator_type); stage names the call that
\* raises, if one does
QueryCreate ==
    /\ hpc = "start"
    /\ \E stage \in {"none", "extract_schema", "GeneratorFactory"}, p \in QueryProbes,
          generator_type \in GeneratorTypes :
        LET f == GeneratorFactory_init(p) IN
        IF stage # "none" \/ f.kind = "raise"
        THEN /\ http' = HTTPException(500, stage \o " failed")
             /\ hpc' = "done"
             /\ UNCHANGED <<factoryVars, gen>>
        ELSE LET r == create_generator(f.value, <<>>, generator_type) IN
             /\ probes' = p
             /\ factory' = f.value
             /\ fpc' = "ready"
             /\ heap' = r.heap
             /\ calls' = <<[type |-> generator_type, ref |-> r.ref, label |-> r.label]>>
             /\ gen' = r.heap[r.ref]
             /\ hpc' = "created"
             /\ UNCHANGED http
    /\ UNCHANGED <<question, rulesVars, gpc, response, requests, outcome, executed, monitorVars>>

\* sql = sql_generator.generate_sql(request.question); raises is an exception
\* leaving generate_sql
QueryGenerate ==
    /\ hpc = "created"
    /\ \E resp \in QueryReplies, model_exists \in BOOLEAN, raises \in BOOLEAN :
        /\ (gen.llm_client # "local" \/ gen.cls = "CustomOpenAIGenerator") => ~model_exists
        /\ ~Truthy(gen.llm_client) => resp = [kind |-> "raise", content |-> None]
        /\ IF gen.cls # "PatternSQLGenerator" /\ Truthy(gen.llm_client)
           THEN /\ requests' = <<Request(gen, question, model_exists)>>
                /\ response' = resp
                /\ outcome' = IF raises THEN Raise ELSE generate_with_llm(gen, question, resp)
           ELSE /\ UNCHANGED <<requests, response>>
                /\ outcome' = IF raises THEN Raise
                              ELSE IF gen.cls = "PatternSQLGenerator"
                              THEN Return(Pattern_generate_sql(question))
                              ELSE Return(_generate_with_rules(question))
        /\ gpc' = "done"
        /\ IF outcome'.kind = "raise"
           THEN /\ http' = HTTPException(500, "generate_sql failed")
                /\ hpc' = "done"
                /\ UNCHANGED sql
           ELSE /\ sql' = outcome'.value
                /\ hpc' = "generated"
                /\ UNCHANGED http
    /\ UNCHANGED <<question, path, gen, factoryVars, executed, monitorVars>>

\* db_manager.execute_query(sql, limit=config.row_limit) and the answer
QueryExecute ==
    /\ hpc = "generated"
    /\ \E db \in DatabaseResults :
        /\ executed' = Append(executed, [sql |-> sql, outcome |-> execute_query(sql, db)])
        /\ http' = execute_and_respond(sql, db, calls[1].label)
    /\ hpc' = "done"
    /\ UNCHANGED <<question, rulesVars, genVars, factoryVars, monitorVars>>

NextQuery == QueryCreate \/ QueryGenerate \/ QueryExecute

SpecQuery == InitQuery /\ [][NextQuery]_vars

\* C22: when generation succeeds and the execution of the SQL raises, the
\* handler answers with a normal response whose sql_query is the SQL attempted,
\* whose error is the failure message, whose columns and rows are empty and
\* whose generator_used is the selected label; the SQL is executed once per
\* request; HTTP 500 comes only from a failure before the execution, and every
\* such failure gives it.
C22_ExecutionErrorIsResponse ==
    /\ Len(executed) <= 1
    /\ hpc = "done" =>
        /\ (executed # <<>> /\ executed[1].outcome.kind = "raise") =>
              /\ outcome = Return(sql)
              /\ executed[1].sql = sql
              /\ http.kind = "response"
              /\ http.sql_query = sql
              /\ http.error = executed[1].outcome.value
              /\ http.columns = <<>> /\ http.rows = <<>>
              /\ http.generator_used = calls[1].label
        /\ http.kind = "exception" => http.status = 500 /\ executed = <<>>
        /\ executed = <<>> => http.kind = "exception" /\ http.status = 500

\* a reply of the fine-tuned model was taken as the SQL and the database
\* refused it
C22_Witness ==
    /\ hpc = "done"
    /\ gen.cls = "CustomOpenAIGenerator"
    /\ sql = "SELECT name FROM t;"
    /\ Len(executed) = 1
    /\ http.kind = "response"
    /\ http.error = "Query execution failed: syntax error"
    /\ http.generator_used = "Custom Fine-tuned GPT (" \o CustomModelId \o ")"

(***************************************************************************)
(* SpecMonitor: the loop of scripts/monitor_finetune.py main               *)
(***************************************************************************)
\* the most polls of one run
MaxPolls == 3

\* what fine_tuner.check_job_status(job_id) does: it raises, the user
\* interrupts it, or it returns the job's status and fine-tuned model
PollResults ==
    {[kind |-> k, status |-> None, model |-> None] : k \in {"raise", "interrupt"}}
    \cup {[kind |-> "status", status |-> "succeeded", model |-> m] : m \in {None, "", JobModelId}}
    \cup {[kind |-> "status", status |-> s, model |-> None] :
            s \in {"failed", "running", "validating_files", "queued"}}

\* what update_env_file does: it rewrites .env, finds no .env, or raises
\* (reading or writing the file fails)
EnvOutcomes == {"updated", "not_found", "raises"}

\* one pass through the try block of the loop: where the loop is next, and the
\* calls of update_env_file made
main_try(r, env) ==
    IF r.kind = "raise" THEN [kind |-> "raise", updates |-> <<>>]
    ELSE IF r.kind = "interrupt" THEN [kind |-> "interrupt", updates |-> <<>>]
    ELSE IF r.status = "succeeded"
    THEN IF Truthy(r.model)
         THEN [kind |-> IF env = "raises" THEN "raise" ELSE "break",
               updates |-> <<[model |-> r.model, outcome |-> env]>>]
         ELSE [kind |-> "break", updates |-> <<>>]
    ELSE IF r.status = "failed" THEN [kind |-> "break", updates |-> <<>>]
    ELSE [kind |-> "sleep", updates |-> <<>>]

InitMonitor ==
    /\ mpc = "poll"
    /\ observed = <<>>
    /\ env_updates = <<>>
    /\ question = ""
    /\ RulesIdle
    /\ GenIdle
    /\ FactoryIdle
    /\ ApiIdle

\* one pass of the while loop up to its break or its sleep: except
\* KeyboardInterrupt breaks, except Exception sleeps
MonitorPoll ==
    /\ mpc = "poll"
    /\ Len(observed) < MaxPolls
    /\ \E r \in PollResults, env \in EnvOutcomes :
        LET t == main_try(r, env) IN
        /\ (r.kind = "status" /\ r.status = "succeeded" /\ Truthy(r.model)) \/ env = "updated"
        /\ observed' = Append(observed, r)
        /\ env_updates' = env_updates \o t.updates
        /\ mpc' = IF t.kind = "break" THEN "stopped"
                  ELSE IF t.kind = "interrupt" THEN "interrupted"
                  ELSE IF t.kind = "raise" THEN "sleep_except"
                  ELSE "sleep"
    /\ UNCHANGED <<question, rulesVars, genVars, factoryVars, apiVars>>

\* time.sleep(120): it ends, or the user interrupts it; the interrupt is caught
\* when the sleep is inside the try block and leaves main when it is inside
\* the except clause
MonitorSleep ==
    /\ mpc \in {"sleep", "sleep_except"}
    /\ \E interrupted \in BOOLEAN :
        mpc' = IF ~interrupted THEN "poll"
               ELSE IF mpc = "sleep" THEN "interrupted" ELSE "aborted"
    /\ UNCHANGED <<observed, env_updates>>
    /\ UNCHANGED <<question, rulesVars, genVars, factoryVars, apiVars>>

NextMonitor == MonitorPoll \/ MonitorSleep

SpecMonitor == InitMonitor /\ [][NextMonitor]_vars

\* the last poll returned status s
LastStatusIn(S) ==
    /\ observed # <<>>
    /\ observed[Len(observed)].kind = "status"
    /\ observed[Len(observed)].status \in S

\* C30: the loop of the monitor terminates once a poll observes 'succeeded' or
\* 'failed'; on every other status and on an error while polling it goes on
\* (it sleeps and polls again); update_env_file is called at most once, only
\* after 'succeeded' was observed with a model name, immediately before the
\* loop terminates.
C30_MonitorTerminates ==
    /\ LastStatusIn({"succeeded", "failed"}) => mpc = "stopped"
    /\ (observed # <<>> /\ ~LastStatusIn({"succeeded", "failed"})) => mpc # "stopped"
    /\ Len(env_updates) <= 1
    /\ env_updates # <<>> =>
          /\ LastStatusIn({"succeeded"})
          /\ Truthy(observed[Len(observed)].model)
          /\ env_updates[1].model = observed[Len(observed)].model
          /\ mpc = "stopped"

====
